---- MODULE Spec2Model ----
(***************************************************************************)
(* Model of monitor.py: the polling / dedup / recovery loop of the bot.    *)
(* Disk state (history file, audio artifacts) survives a restart, memory   *)
(* state (the loop's locals) does not.  Every collaborator call is one     *)
(* step whose outcome is chosen nondeterministically.                      *)
(***************************************************************************)
EXTENDS Integers, Sequences, FiniteSets, TLC

\* ---------------------------------------------------------------- bounds
NumChannels == 2
NumVids == 2
MaxEntries == 2

\* ------------------------------------------------------ program constants
ShortSleep == 60
LongSleep == 900
ChannelDelay == 2

\* ------------------------------------------------------------- universe
None == "None"

VidNames == <<"v1", "x429z", "v3", "v4">>
Vids == {VidNames[i] : i \in 1..NumVids}

\* an id of a channel (not of a video): the scanner must skip it
ChannelIds == {"UCchan"}

\* the extensions the fetcher looks for; a file a download leaves under
\* another extension is never looked at again and is not kept in the state
Exts == {"m4a", "webm"}

ArtifactPath(id, ext) == <<id, ext>>
NoPath == << >>
AllPaths == Vids \X Exts

TARGET_CHANNELS == 1..NumChannels

\* ---------------------------------------------------------- settings
\* os.getenv gives None for a variable that is not set; it may be set empty
CredNames == {"GOOGLE_API_KEY", "LINE_CHANNEL_ACCESS_TOKEN", "LINE_USER_ID"}
CredValues == {None, "", "secret"}

Truthy(v) == v # None /\ v # ""

\* faulty variant: only a variable that is not set at all counts as missing
CredsNotNone(c) == \A k \in CredNames : c[k] # None

\* line 28: all([GOOGLE_API_KEY, LINE_TOKEN, LINE_USER_ID])
CredsPresent(c) == \A k \in CredNames : Truthy(c[k])

\* ------------------------------------------------------- error messages
\* str(e) is a sequence of fragments; SignaturesIn gives the API-limit
\* signatures that occur as substrings of a fragment.
SignaturesIn(frag) ==
    CASE frag = "429" -> {"429"}
      [] frag = "403" -> {"403"}
      [] frag = "ResourceExhausted" -> {"ResourceExhausted"}
      [] frag = "x429z" -> {"429"}
      [] OTHER -> {}

Contains(msg, pat) == \E i \in DOMAIN msg : pat \in SignaturesIn(msg[i])

\* what analyze_audio can raise
AnalyzeErrors ==
    { <<"429", "Resource has been exhausted">>,
      <<"ResourceExhausted">>,
      <<"403", "Forbidden">>,
      <<"Audio processing failed on Google Server">>,
      <<"500", "Internal error">> }

\* what save_history can raise (OSError names the history file)
SaveError == <<"Errno 28 No space left on device", "processed_videos.txt">>

\* what os.remove can raise (OSError names the artifact)
RemoveError(path) == <<"Errno 13 Permission denied", "temp_", path[1], path[2]>>

IsApiLimit(err_msg) ==
    \/ Contains(err_msg, "429")
    \/ Contains(err_msg, "ResourceExhausted")
    \/ Contains(err_msg, "403")

\* -------------------------------------------------------------- state
VARIABLES
    pc,            \* position of the process in the main loop
    historyFile,   \* disk: the lines of processed_videos.txt
    artifacts,     \* disk: the temp_<id>.<ext> files that exist
    history,       \* memory: the set loaded at the start of the iteration
    api_limit_hit, \* memory: the cooldown flag of the iteration
    ci,            \* memory: index of the channel being handled
    vid,           \* memory: id returned by the scan
    audio,         \* memory: path returned by the fetch
    err,           \* memory: message of the exception being handled
    ev,            \* history variable: the operation the last step performed
    run,           \* history variable: outcomes of the current pipeline run
    rateSeen,      \* history variable: an Analyze failure of this iteration
                   \* was classified as API limit
    lastFetch,     \* history variable: per id, the path the last Fetch returned
    creds,         \* environment: the values of the three required settings
    cooling,       \* history variable: the ids of the runs classified as API
                   \* limit since the last long sleep of this process
    classSeen,     \* history variable: a run of this iteration was classified
                   \* as API limit
    prevLong,      \* history variable: the previous iteration ended with the
                   \* long sleep
    recov          \* history variable: the ids whose run was cut by a stop of
                   \* the process between Fetch and append, not fetched since

vars == <<pc, historyFile, artifacts, history, api_limit_hit, ci, vid, audio,
          err, ev, run, rateSeen, lastFetch, creds, cooling, classSeen,
          prevLong, recov>>

disk == <<historyFile, artifacts>>

\* op: the operation; vid: the video it was for; ok: its outcome (for Fetch:
\* whether the download ran); secs: the length of a sleep
Ev(op, id, ok, secs) == [op |-> op, vid |-> id, ok |-> ok, secs |-> secs]

NoRun == [vid |-> None, pre |-> FALSE, fetched |-> NoPath, analyze |-> "none",
          notify |-> "none", appended |-> FALSE, deleted |-> FALSE,
          raised |-> "none", class |-> "none"]

\* ------------------------------------------------------- History Store
load_history(file) == file

\* faulty variant: the line is never written
save_historyLost(file, id) == file

save_history(file, id) == file \cup {id}

\* ----------------------------------------------------- Channel Scanner
\* an entry of the playlist: a falsy one (neither id nor title), a channel,
\* a video without a title, a video with one
Entries ==
    {[id |-> None, title |-> None]}
    \cup [id : ChannelIds, title : {"t"}]
    \cup {[id |-> VidNames[1], title |-> None]}
    \cup [id : Vids, title : {"t"}]

RECURSIVE SeqsUpTo(_)
SeqsUpTo(n) ==
    IF n = 0 THEN {<< >>}
    ELSE SeqsUpTo(n - 1) \cup
         {Append(s, e) : s \in {t \in SeqsUpTo(n - 1) : Len(t) = n - 1}, e \in Entries}

\* what extract_info can give: an exception, or a list of entries
ScanInputs ==
    {[raises |-> TRUE, entries |-> << >>]}
    \cup [raises : {FALSE}, entries : SeqsUpTo(MaxEntries)]

Qualifies(entry) ==
    /\ entry.id # None
    /\ entry.id \notin ChannelIds
    /\ entry.title # None

RECURSIVE FirstQualifying(_)
FirstQualifying(entries) ==
    IF entries = << >> THEN None
    ELSE IF Qualifies(Head(entries)) THEN Head(entries).id
    ELSE FirstQualifying(Tail(entries))

get_latest_video(info) ==
    IF info.raises THEN None ELSE FirstQualifying(info.entries)

\* ------------------------------------------------------- Media Fetcher
\* the path the fetcher finds on disk before any download, or None
ExistingArtifact(files, id) ==
    IF ArtifactPath(id, "m4a") \in files THEN ArtifactPath(id, "m4a")
    ELSE IF ArtifactPath(id, "webm") \in files THEN ArtifactPath(id, "webm")
    ELSE NoPath

\* faulty variant: the existence check is skipped, the download always runs
download_always(files, id) ==
    {[files |-> files \cup {ArtifactPath(id, e)},
      path |-> ExistingArtifact(files \cup {ArtifactPath(id, e)}, id),
      downloaded |-> TRUE] : e \in Exts}
    \cup {[files |-> files, path |-> ExistingArtifact(files, id), downloaded |-> TRUE]}

\* the ways download_audio_if_not_exists(url, id) can end on disk `files`:
\* the files afterwards, the path returned, whether ydl.download was invoked.
\* A download writes temp_<id>.m4a or temp_<id>.webm, or it raises or writes
\* another extension, and then None is returned.
download_audio_if_not_exists(files, id) ==
    IF ExistingArtifact(files, id) # NoPath
    THEN {[files |-> files, path |-> ExistingArtifact(files, id), downloaded |-> FALSE]}
    ELSE {[files |-> files \cup {ArtifactPath(id, e)},
           path |-> ExistingArtifact(files \cup {ArtifactPath(id, e)}, id),
           downloaded |-> TRUE] : e \in Exts}
         \cup {[files |-> files, path |-> NoPath, downloaded |-> TRUE]}

\* ---------------------------------------------------------------- Init
Init ==
    /\ pc = "startup"
    /\ historyFile = {}
    /\ artifacts = {}
    /\ history = {}
    /\ api_limit_hit = FALSE
    /\ ci = 1
    /\ vid = None
    /\ audio = NoPath
    /\ err = << >>
    /\ ev = Ev("Start", None, FALSE, 0)
    /\ run = NoRun
    /\ rateSeen = FALSE
    /\ lastFetch = [id \in Vids |-> NoPath]
    /\ creds \in [CredNames -> CredValues]
    /\ cooling = {}
    /\ classSeen = FALSE
    /\ prevLong = FALSE
    /\ recov = {}

\* ------------------------------------------------------------ actions
\* the loop's locals as a fresh process has them
FreshMemory ==
    /\ history' = {}
    /\ api_limit_hit' = FALSE
    /\ ci' = 1
    /\ vid' = None
    /\ audio' = NoPath
    /\ err' = << >>
    /\ run' = NoRun
    /\ rateSeen' = FALSE
    /\ cooling' = {}
    /\ classSeen' = FALSE
    /\ prevLong' = FALSE

\* lines 22-30: the settings are read; with one of them missing the process
\* exits before the loop
StartupOk ==
    /\ pc = "startup"
    /\ CredsPresent(creds)
    /\ pc' = "load"
    /\ ev' = Ev("Configured", None, TRUE, 0)
    /\ UNCHANGED <<disk, history, api_limit_hit, ci, vid, audio, err, run, rateSeen, lastFetch, creds, cooling, classSeen, prevLong, recov>>

\* lines 28-30: sys.exit(1)
StartupFails ==
    /\ pc = "startup"
    /\ ~CredsPresent(creds)
    /\ pc' = "exited"
    /\ ev' = Ev("ConfigExit", None, FALSE, 0)
    /\ UNCHANGED <<disk, history, api_limit_hit, ci, vid, audio, err, run, rateSeen, lastFetch, creds, cooling, classSeen, prevLong, recov>>

\* faulty variant: the flag is initialised once, before the while loop
LoadOkKeepsFlag ==
    /\ pc = "load"
    /\ history' = load_history(historyFile)
    /\ ci' = 1
    /\ rateSeen' = FALSE
    /\ pc' = IF NumChannels = 0 THEN "endsleep" ELSE "scan"
    /\ classSeen' = FALSE
    /\ ev' = Ev("Load", None, TRUE, 0)
    /\ UNCHANGED <<disk, api_limit_hit, vid, audio, err, run, lastFetch, creds, cooling, prevLong, recov>>

\* lines 186-187: history = load_history(); api_limit_hit = False
LoadOk ==
    /\ pc = "load"
    /\ history' = load_history(historyFile)
    /\ api_limit_hit' = FALSE
    /\ ci' = 1
    /\ rateSeen' = FALSE
    /\ pc' = IF NumChannels = 0 THEN "endsleep" ELSE "scan"
    /\ classSeen' = FALSE
    /\ ev' = Ev("Load", None, TRUE, 0)
    /\ UNCHANGED <<disk, vid, audio, err, run, lastFetch, creds, cooling, prevLong, recov>>

\* faulty variant: no handler at the outer level, the exception ends the process
LoadRaisesExits ==
    /\ pc = "load"
    /\ pc' = "terminated"
    /\ ev' = Ev("Load", None, FALSE, 0)
    /\ FreshMemory
    /\ UNCHANGED <<disk, lastFetch, creds, recov>>

\* line 186 raising (an I/O or decoding error of open/read)
LoadRaises ==
    /\ pc = "load"
    /\ rateSeen' = FALSE
    /\ classSeen' = FALSE
    /\ pc' = "outer_except"
    /\ ev' = Ev("Load", None, FALSE, 0)
    /\ UNCHANGED <<disk, history, api_limit_hit, ci, vid, audio, err, run, lastFetch, creds, cooling, prevLong, recov>>

\* line 190: vid, title, url = get_latest_video(channel)
Scan ==
    /\ pc = "scan"
    /\ \E info \in ScanInputs :
          /\ vid' = get_latest_video(info)
          /\ ev' = Ev("Scan", get_latest_video(info), ~info.raises, 0)
    /\ pc' = "check"
    /\ UNCHANGED <<disk, history, api_limit_hit, ci, audio, err, run, rateSeen, lastFetch, creds, cooling, classSeen, prevLong, recov>>

\* lines 192-196: nothing found, or already in the loaded history
Skip ==
    /\ pc = "check"
    /\ vid = None \/ vid \in history
    /\ pc' = "delay"
    /\ ev' = Ev("Skip", vid, TRUE, 0)
    /\ UNCHANGED <<disk, history, api_limit_hit, ci, vid, audio, err, run, rateSeen, lastFetch, creds, cooling, classSeen, prevLong, recov>>

\* faulty variant: the membership test of line 193 is missing
NewVideoUnchecked ==
    /\ pc = "check"
    /\ vid # None
    /\ pc' = "fetch"
    /\ run' = [NoRun EXCEPT !.vid = vid, !.pre = (vid \in historyFile)]
    /\ ev' = Ev("New", vid, TRUE, 0)
    /\ UNCHANGED <<disk, history, api_limit_hit, ci, vid, audio, err, rateSeen, lastFetch, creds, cooling, classSeen, prevLong, recov>>

\* lines 195-196: a new video, its pipeline starts
NewVideo ==
    /\ pc = "check"
    /\ vid # None /\ vid \notin history
    /\ pc' = "fetch"
    /\ run' = [NoRun EXCEPT !.vid = vid, !.pre = (vid \in historyFile)]
    /\ ev' = Ev("New", vid, TRUE, 0)
    /\ UNCHANGED <<disk, history, api_limit_hit, ci, vid, audio, err, rateSeen, lastFetch, creds, cooling, classSeen, prevLong, recov>>

\* faulty variant: the test `if audio:` of line 201 is missing
FetchUnchecked ==
    /\ pc = "fetch"
    /\ \E o \in download_audio_if_not_exists(artifacts, vid) :
          /\ artifacts' = o.files
          /\ audio' = o.path
          /\ run' = [run EXCEPT !.fetched = o.path]
          /\ lastFetch' = [lastFetch EXCEPT ![vid] = o.path]
          /\ ev' = Ev("Fetch", vid, o.downloaded, 0)
    /\ pc' = "analyze"
    /\ recov' = recov \ {vid}
    /\ UNCHANGED <<historyFile, history, api_limit_hit, ci, vid, err, rateSeen, creds, cooling, classSeen, prevLong>>

\* lines 199-201: audio = download_audio_if_not_exists(url, vid); if audio:
Fetch ==
    /\ pc = "fetch"
    /\ \E o \in download_audio_if_not_exists(artifacts, vid) :
          /\ artifacts' = o.files
          /\ audio' = o.path
          /\ run' = [run EXCEPT !.fetched = o.path]
          /\ lastFetch' = [lastFetch EXCEPT ![vid] = o.path]
          /\ ev' = Ev("Fetch", vid, o.downloaded, 0)
          /\ pc' = IF o.path # NoPath THEN "analyze" ELSE "delay"
    /\ recov' = recov \ {vid}
    /\ UNCHANGED <<historyFile, history, api_limit_hit, ci, vid, err, rateSeen, creds, cooling, classSeen, prevLong>>

\* faulty variant: the failure of the analysis is swallowed and the run goes on
AnalyzeSwallows ==
    /\ pc = "analyze"
    /\ \E e \in {<< >>} \cup AnalyzeErrors :
          /\ run' = [run EXCEPT !.analyze = IF e = << >> THEN "ok" ELSE "fail"]
          /\ ev' = Ev("Analyze", vid, e = << >>, 0)
    /\ pc' = "notify"
    /\ UNCHANGED <<disk, history, api_limit_hit, ci, vid, audio, err, rateSeen, lastFetch, creds, cooling, classSeen, prevLong, recov>>

\* lines 204-206: analysis = analyze_audio(audio, title)
Analyze ==
    /\ pc = "analyze"
    /\ \E e \in {<< >>} \cup AnalyzeErrors :
          /\ err' = e
          /\ run' = [run EXCEPT !.analyze = IF e = << >> THEN "ok" ELSE "fail",
                                !.raised = IF e = << >> THEN "none" ELSE "analyze"]
          /\ ev' = Ev("Analyze", vid, e = << >>, 0)
          /\ pc' = IF e = << >> THEN "notify" ELSE "handler"
    /\ UNCHANGED <<disk, history, api_limit_hit, ci, vid, audio, rateSeen, lastFetch, creds, cooling, classSeen, prevLong, recov>>

\* faulty variant: send_line lets its exception out, into the handler of line 217
send_lineRaises ==
    /\ pc = "notify"
    /\ \E delivered \in BOOLEAN :
          /\ run' = [run EXCEPT !.notify = IF delivered THEN "ok" ELSE "fail",
                                !.raised = IF delivered THEN "none" ELSE "notify"]
          /\ ev' = Ev("Notify", vid, delivered, 0)
          /\ err' = IF delivered THEN err ELSE <<"LineBotApiError", "401">>
          /\ pc' = IF delivered THEN "save" ELSE "handler"
    /\ UNCHANGED <<disk, history, api_limit_hit, ci, vid, audio, rateSeen, lastFetch, creds, cooling, classSeen, prevLong, recov>>

\* faulty variant: the artifact is removed before the history is saved
send_lineThenRemove ==
    /\ pc = "notify"
    /\ \E delivered \in BOOLEAN :
          /\ run' = [run EXCEPT !.notify = IF delivered THEN "ok" ELSE "fail"]
          /\ ev' = Ev("Notify", vid, delivered, 0)
    /\ pc' = "remove"
    /\ UNCHANGED <<disk, history, api_limit_hit, ci, vid, audio, err, rateSeen, lastFetch, creds, cooling, classSeen, prevLong, recov>>

\* line 207 and lines 169-175: send_line(report) logs its own failure
send_line ==
    /\ pc = "notify"
    /\ \E delivered \in BOOLEAN :
          /\ run' = [run EXCEPT !.notify = IF delivered THEN "ok" ELSE "fail"]
          /\ ev' = Ev("Notify", vid, delivered, 0)
    /\ pc' = "save"
    /\ UNCHANGED <<disk, history, api_limit_hit, ci, vid, audio, err, rateSeen, lastFetch, creds, cooling, classSeen, prevLong, recov>>

\* line 210: save_history(vid)
SaveOk ==
    /\ pc = "save"
    /\ historyFile' = save_history(historyFile, vid)
    /\ run' = [run EXCEPT !.appended = TRUE]
    /\ ev' = Ev("Append", vid, TRUE, 0)
    /\ pc' = "remove"
    /\ UNCHANGED <<artifacts, history, api_limit_hit, ci, vid, audio, err, rateSeen, lastFetch, creds, cooling, classSeen, prevLong, recov>>

\* line 210 raising
SaveRaises ==
    /\ pc = "save"
    /\ err' = SaveError
    /\ run' = [run EXCEPT !.raised = "save"]
    /\ ev' = Ev("Append", vid, FALSE, 0)
    /\ pc' = "handler"
    /\ UNCHANGED <<disk, history, api_limit_hit, ci, vid, audio, rateSeen, lastFetch, creds, cooling, classSeen, prevLong, recov>>

\* lines 213-215: if os.path.exists(audio): os.remove(audio)
RemoveOk ==
    /\ pc = "remove"
    /\ artifacts' = artifacts \ {audio}
    /\ run' = [run EXCEPT !.deleted = (audio \in artifacts)]
    /\ ev' = Ev("Delete", vid, TRUE, 0)
    /\ pc' = "delay"
    /\ UNCHANGED <<historyFile, history, api_limit_hit, ci, vid, audio, err, rateSeen, lastFetch, creds, cooling, classSeen, prevLong, recov>>

\* line 214 raising
RemoveRaises ==
    /\ pc = "remove"
    /\ audio \in artifacts
    /\ err' = RemoveError(audio)
    /\ run' = [run EXCEPT !.raised = "remove"]
    /\ ev' = Ev("Delete", vid, FALSE, 0)
    /\ pc' = "handler"
    /\ UNCHANGED <<disk, history, api_limit_hit, ci, vid, audio, rateSeen, lastFetch, creds, cooling, classSeen, prevLong, recov>>

\* the except block of lines 217-228, leaving the flag, the history file and
\* the artifacts as given
HandlerStep(flag, file, files) ==
    /\ pc = "handler"
    /\ api_limit_hit' = flag
    /\ historyFile' = file
    /\ artifacts' = files
    /\ rateSeen' = (rateSeen \/ (run.raised = "analyze" /\ IsApiLimit(err)))
    /\ classSeen' = (classSeen \/ IsApiLimit(err))
    /\ cooling' = IF IsApiLimit(err) THEN cooling \cup {vid} ELSE cooling
    /\ run' = [run EXCEPT !.class = IF IsApiLimit(err) THEN "rate" ELSE "other"]
    /\ err' = << >>
    /\ ev' = Ev("Classify", vid, IsApiLimit(err), 0)
    /\ pc' = "delay"
    /\ UNCHANGED <<history, ci, vid, audio, lastFetch, creds, prevLong, recov>>

\* faulty variant: a failure that is no API limit marks the video done (it is skipped)
HandlerCommits ==
    HandlerStep(api_limit_hit \/ IsApiLimit(err),
                IF IsApiLimit(err) THEN historyFile ELSE save_history(historyFile, vid),
                artifacts)

\* faulty variant: the flag is assigned in both branches, a later failure clears it
HandlerOverwrites == HandlerStep(IsApiLimit(err), historyFile, artifacts)

\* faulty variant: the handler removes the artifact of the failed run
HandlerCleans ==
    HandlerStep(api_limit_hit \/ IsApiLimit(err), historyFile, artifacts \ {audio})

\* lines 217-228: except Exception as e: the flag is set when str(e) carries
\* an API-limit signature; nothing on disk is touched
Handler == HandlerStep(api_limit_hit \/ IsApiLimit(err), historyFile, artifacts)

\* faulty variant: the channel loop is left once the flag is set
DelayBreaks ==
    /\ pc = "delay"
    /\ ev' = Ev("Delay", None, TRUE, ChannelDelay)
    /\ ci' = IF ci < NumChannels /\ ~api_limit_hit THEN ci + 1 ELSE 1
    /\ pc' = IF ci < NumChannels /\ ~api_limit_hit THEN "scan" ELSE "endsleep"
    /\ vid' = None
    /\ audio' = NoPath
    /\ run' = NoRun
    /\ UNCHANGED <<disk, history, api_limit_hit, err, rateSeen, lastFetch, creds, cooling, classSeen, prevLong, recov>>

\* line 230: time.sleep(2), then the next channel or the end of the for loop;
\* vid and audio are dead until the next scan assigns them
Delay ==
    /\ pc = "delay"
    /\ ev' = Ev("Delay", None, TRUE, ChannelDelay)
    /\ ci' = IF ci < NumChannels THEN ci + 1 ELSE 1
    /\ pc' = IF ci < NumChannels THEN "scan" ELSE "endsleep"
    /\ vid' = None
    /\ audio' = NoPath
    /\ run' = NoRun
    /\ UNCHANGED <<disk, history, api_limit_hit, err, rateSeen, lastFetch, creds, cooling, classSeen, prevLong, recov>>

\* the number of seconds lines 233-238 sleep
EndWait(limit_hit) == IF limit_hit THEN LongSleep ELSE ShortSleep

\* faulty variant: the loop is left after the long sleep
EndSleepBreaks ==
    /\ pc = "endsleep"
    /\ ev' = Ev("EndSleep", None, TRUE, EndWait(api_limit_hit))
    /\ prevLong' = (EndWait(api_limit_hit) = LongSleep)
    /\ cooling' = IF EndWait(api_limit_hit) = LongSleep THEN {} ELSE cooling
    /\ pc' = IF api_limit_hit THEN "terminated" ELSE "load"
    /\ UNCHANGED <<disk, history, api_limit_hit, ci, vid, audio, err, run, rateSeen, lastFetch, creds, classSeen, recov>>

\* lines 233-238: the sleep that ends the outer iteration
EndSleep ==
    /\ pc = "endsleep"
    /\ ev' = Ev("EndSleep", None, TRUE, EndWait(api_limit_hit))
    /\ prevLong' = (EndWait(api_limit_hit) = LongSleep)
    /\ cooling' = IF EndWait(api_limit_hit) = LongSleep THEN {} ELSE cooling
    /\ pc' = "load"
    /\ UNCHANGED <<disk, history, api_limit_hit, ci, vid, audio, err, run, rateSeen, lastFetch, creds, classSeen, recov>>

\* lines 243-245: except Exception: log, time.sleep(60), next iteration
OuterExcept ==
    /\ pc = "outer_except"
    /\ ev' = Ev("ExceptSleep", None, TRUE, ShortSleep)
    /\ prevLong' = FALSE
    /\ pc' = "load"
    /\ UNCHANGED <<disk, history, api_limit_hit, ci, vid, audio, err, run, rateSeen, lastFetch, creds, cooling, classSeen, recov>>

\* the process is between the Fetch that returned an artifact and the append
\* of line 210, for a video that was not in the History Store
InWindow ==
    /\ \/ pc \in {"analyze", "notify", "save"}
       \/ pc = "handler" /\ run.raised \in {"analyze", "save"}
    /\ ~run.pre
    /\ audio # NoPath

\* the ids with a cut run, after the process stops here
CutRuns == IF InWindow THEN recov \cup {vid} ELSE recov

\* faulty variant: the handler of line 217 is a bare `except:`, which catches
\* the interrupt raised inside the try block of lines 202-215
InterruptSwallowed ==
    /\ pc \notin {"terminated", "exited"}
    /\ ev' = Ev("Exit", None, TRUE, 0)
    /\ IF pc \in {"analyze", "notify", "save", "remove"}
       THEN /\ pc' = "handler"
            /\ err' = <<"KeyboardInterrupt">>
            /\ UNCHANGED <<disk, history, api_limit_hit, ci, vid, audio, run, rateSeen, lastFetch, creds, cooling, classSeen, prevLong, recov>>
       ELSE /\ pc' = "terminated"
            /\ recov' = CutRuns
            /\ FreshMemory
            /\ UNCHANGED <<disk, lastFetch, creds>>

\* lines 240-242: KeyboardInterrupt ends the loop (Exception handlers do not
\* catch it); raised in the sleep of line 245 it ends the process as well
Interrupt ==
    /\ pc \notin {"terminated", "exited"}
    /\ pc' = "terminated"
    /\ ev' = Ev("Exit", None, TRUE, 0)
    /\ recov' = CutRuns
    /\ FreshMemory
    /\ UNCHANGED <<disk, lastFetch, creds>>

\* faulty variant: the temporary files are swept when the process starts
RestartCleans ==
    /\ pc' = "startup"
    /\ ev' = Ev("Start", None, TRUE, 0)
    /\ recov' = CutRuns
    /\ artifacts' = {}
    /\ FreshMemory
    /\ UNCHANGED <<historyFile, lastFetch, creds>>

\* the process is killed (or has ended) and is started again: line 22
Restart ==
    /\ pc' = "startup"
    /\ ev' = Ev("Start", None, TRUE, 0)
    /\ recov' = CutRuns
    /\ FreshMemory
    /\ UNCHANGED <<disk, lastFetch, creds>>

\* lines 20-25: the .env file and the environment are edited while the
\* process is down
SetEnv ==
    /\ pc \in {"terminated", "exited"}
    /\ creds' \in [CredNames -> CredValues] \ {creds}
    /\ UNCHANGED <<pc, disk, history, api_limit_hit, ci, vid, audio, err, ev, run, rateSeen, lastFetch, cooling, classSeen, prevLong, recov>>

Next ==
    \/ StartupOk \/ StartupFails
    \/ LoadOk \/ LoadRaises
    \/ Scan \/ Skip \/ NewVideo
    \/ Fetch \/ Analyze \/ send_line
    \/ SaveOk \/ SaveRaises \/ RemoveOk \/ RemoveRaises
    \/ Handler \/ Delay \/ EndSleep \/ OuterExcept
    \/ Interrupt \/ Restart \/ SetEnv

Spec == Init /\ [][Next]_vars

\* ------------------------------------------------- a run that goes on
\* The process is started with its settings present and is neither
\* interrupted nor killed, and the first channel keeps one video as its
\* latest: every scan of it succeeds and returns that video.
LiveVid == VidNames[2]

InitLive == Init /\ CredsPresent(creds)

ScanLive == Scan /\ (ci = 1 => vid' = LiveVid)

NextLive ==
    \/ StartupOk
    \/ LoadOk \/ LoadRaises
    \/ ScanLive \/ Skip \/ NewVideo
    \/ Fetch \/ Analyze \/ send_line
    \/ SaveOk \/ SaveRaises \/ RemoveOk \/ RemoveRaises
    \/ Handler \/ Delay \/ EndSleep \/ OuterExcept

\* every call returns and every sleep ends: the loop always takes its next step
SpecLive == InitLive /\ [][NextLive]_vars /\ WF_vars(NextLive)

\* ------------------------------------------------------------- typing
TypeOK ==
    /\ pc \in {"startup", "exited", "load", "scan", "check", "fetch", "analyze", "notify", "save",
               "remove", "handler", "delay", "endsleep", "outer_except",
               "terminated"}
    /\ historyFile \subseteq Vids
    /\ artifacts \subseteq AllPaths
    /\ history \subseteq Vids
    /\ api_limit_hit \in BOOLEAN
    /\ ci \in 1..NumChannels
    /\ vid \in Vids \cup {None}
    /\ audio \in (Vids \X Exts) \cup {NoPath}
    /\ lastFetch \in [Vids -> (Vids \X Exts) \cup {NoPath}]

\* ------------------------------------------------------------- claims
\* the pipeline of run.vid has returned (the loop is at the sleep of line 230)
Returned == pc = "delay" /\ run.vid # None

\* a step of the loop itself: anything but the interrupt and the restart
LoopStep ==
    \/ LoadOk \/ LoadRaises
    \/ Scan \/ Skip \/ NewVideo
    \/ Fetch \/ Analyze \/ send_line
    \/ SaveOk \/ SaveRaises \/ RemoveOk \/ RemoveRaises
    \/ Handler \/ Delay \/ EndSleep \/ OuterExcept

\* C1: once an identifier is in the History Store, no Fetch, Analyze or
\* Notify call is made for it again (later iteration, restart, or later in
\* the iteration that committed it).
C1_NoCallForRecorded ==
    ev.op \in {"Fetch", "Analyze", "Notify"} => ev.vid \notin historyFile

C3_NoPrematureCommit ==
    (Returned /\ ~run.pre /\ run.analyze = "fail")
    => (run.vid \notin historyFile /\ run.class \in {"rate", "other"})

C3_Witness ==
    /\ Returned /\ ~run.pre /\ run.analyze = "fail" /\ run.class = "other"
    /\ run.fetched \in artifacts /\ run.vid \notin historyFile

\* C4: when an Analyze failure of the outer iteration was classified as an
\* API limit, the sleep that ends the iteration is the long one, not the
\* short one.
C4_CooldownSleep ==
    (ev.op = "EndSleep" /\ rateSeen) => (ev.secs = LongSleep /\ ev.secs # ShortSleep)

C4_Witness == ev.op = "EndSleep" /\ rateSeen /\ ev.secs = LongSleep

\* C5 as stated: an identifier is appended only after Fetch returned an
\* artifact, Analyze succeeded and Notify succeeded.
C5_AppendOnlyAfterNotifyOk ==
    (ev.op = "Append" /\ ev.ok)
    => (run.fetched # NoPath /\ run.analyze = "ok" /\ run.notify = "ok")

\* C5 amended: an identifier is appended only after Fetch returned an
\* artifact, Analyze succeeded and the Notify call returned (delivered or
\* not); the History Store changes by such an append only.
C5_AppendOnlyAfterAnalyzeOk ==
    /\ []((ev.op = "Append" /\ ev.ok)
          => (run.fetched # NoPath /\ run.fetched \in artifacts
              /\ run.analyze = "ok" /\ run.notify \in {"ok", "fail"}))
    /\ [][historyFile' # historyFile
          => (ev'.op = "Append" /\ ev'.ok /\ historyFile' = historyFile \cup {ev'.vid})]_vars

C5_Witness ==
    ev.op = "Append" /\ ev.ok /\ run.analyze = "ok" /\ run.notify = "fail"
    /\ ev.vid \in historyFile

C7_SkipHasNoEffect ==
    [][(pc = "check" /\ vid \in history /\ ev'.op \notin {"Exit", "Start"})
       => (/\ ev'.op = "Skip"
           /\ pc' = "delay"
           /\ UNCHANGED <<historyFile, artifacts, api_limit_hit, run, lastFetch>>)]_vars

C7_Witness == ev.op = "Skip" /\ ev.vid \in history /\ pc = "delay"

\* C8: a Fetch for an identifier whose artifact exists returns an existing
\* path of that identifier without downloading and leaves the disk alone;
\* when the previous Fetch for the identifier returned a file that still
\* exists, the same path is returned.
C8_ArtifactReuse ==
    [][(ev'.op = "Fetch" /\ \E e \in Exts : ArtifactPath(vid, e) \in artifacts)
       => (/\ ~ev'.ok
           /\ audio' \in artifacts /\ audio'[1] = vid
           /\ artifacts' = artifacts
           /\ (lastFetch[vid] \in artifacts => audio' = lastFetch[vid]))]_vars

C8_Witness ==
    /\ ev.op = "Fetch" /\ ~ev.ok /\ audio # NoPath /\ audio \in artifacts
    /\ run.fetched = audio

\* C9: a pipeline that returns without committing leaves the artifact Fetch
\* returned on disk; an artifact is deleted only in a run that appended the
\* identifier to the History Store.
C9_ArtifactKeptUnlessCommitted ==
    /\ [](  /\ (Returned /\ run.fetched # NoPath /\ ~run.appended)
               => run.fetched \in artifacts
            /\ run.deleted => (run.appended /\ run.vid \in historyFile))
    /\ [][\A f \in artifacts : f \notin artifacts'
            => (ev'.op = "Delete" /\ f = run.fetched /\ run.appended)]_vars

C9_Witness ==
    /\ Returned /\ run.analyze = "fail" /\ run.class = "rate"
    /\ run.fetched \in artifacts /\ ~run.appended

\* C10: no recovered error ends the process: the process is terminated only
\* by the interrupt, every other state has a next step of the loop, each
\* failure leaves the loop at its recovery point, and an exception at the
\* outer level is followed by the short sleep and a new iteration.
C10_OnlyInterruptTerminates ==
    /\ pc = "terminated" <=> ev.op = "Exit"
    /\ pc \notin {"terminated", "startup", "exited"} => ENABLED LoopStep
    /\ (ev.op = "Scan" /\ ~ev.ok) => pc = "check"
    /\ (ev.op = "Fetch" /\ audio = NoPath) => pc = "delay"
    /\ (ev.op = "Analyze" /\ ~ev.ok) => pc = "handler"
    /\ ev.op = "Classify" => pc = "delay"
    /\ (ev.op = "Notify" /\ ~ev.ok) => pc = "save"
    /\ (ev.op = "Load" /\ ~ev.ok) => pc = "outer_except"
    /\ ev.op = "ExceptSleep" => (pc = "load" /\ ev.secs = ShortSleep)

C10_Witness == ev.op = "ExceptSleep" /\ pc = "load"

\* one of the three required settings is not set, or is set empty
MissingCred == \E k \in CredNames : creds[k] \in {None, ""}

\* C11: with one of the three required settings absent the process exits
\* before the loop: it is at startup or has stopped, and the last operation
\* is the start, the exit of line 30 or an interrupt, never a History Store
\* load, a Scan, Fetch, Analyze, Notify or append.
C11_ExitBeforeLoop ==
    /\ MissingCred
       => (/\ pc \in {"startup", "exited", "terminated"}
           /\ ev.op \in {"Start", "ConfigExit", "Exit"})
    /\ (pc = "startup" /\ MissingCred) => (ENABLED StartupFails /\ ~ENABLED StartupOk)
    /\ pc = "exited" => (ev.op = "ConfigExit" /\ ~ENABLED LoopStep)

C11_Witness ==
    /\ pc = "exited" /\ MissingCred /\ ev.op = "ConfigExit"
    /\ creds["GOOGLE_API_KEY"] = "secret" /\ creds["LINE_USER_ID"] = ""

\* C12: whenever a pipeline run sets the cooldown signal (its caught error
\* is classified as API limit), the identifier is not in the History Store
\* when the run returns.
C12_RateLimitNeverMarksDone ==
    (Returned /\ ~run.pre /\ run.class = "rate") => run.vid \notin historyFile

\* C13 as stated: after a run for a video was classified as API limit, no
\* Analyze call is made for that video until the long sleep has completed.
C13_NoAnalyzeBeforeCooldown ==
    ev.op = "Analyze" => ev.vid \notin cooling

\* C13 amended: an outer iteration with a run classified as API limit ends
\* with the long sleep, so a new outer iteration never starts with a video
\* still waiting for its cooldown; an Analyze call for such a video happens
\* only in the outer iteration that classified it (a later channel reporting
\* the same video).
C13_NoAnalyzeInLaterIteration ==
    /\ pc \in {"load", "outer_except"} => cooling = {}
    /\ (ev.op = "Analyze" /\ ev.vid \in cooling) => (classSeen /\ api_limit_hit)
    /\ (ev.op = "EndSleep" /\ classSeen) => ev.secs = LongSleep

C13_Witness ==
    /\ ev.op = "EndSleep" /\ ev.secs = LongSleep /\ classSeen /\ rateSeen
    /\ cooling = {} /\ pc = "load"

\* C14: within one pipeline run the steps come in the order Fetch, Analyze,
\* Notify, append, delete: Analyze only after Fetch returned an artifact,
\* Notify only after Analyze returned a report, the append only after the
\* Notify call returned, the delete only after the append.
C14_StepOrder ==
    /\ ev.op \in {"Fetch", "Analyze", "Notify", "Append", "Delete"} => run.vid = ev.vid
    /\ ev.op = "Fetch"
       => (run.analyze = "none" /\ run.notify = "none" /\ ~run.appended /\ ~run.deleted)
    /\ ev.op = "Analyze"
       => (run.fetched # NoPath /\ run.notify = "none" /\ ~run.appended /\ ~run.deleted)
    /\ ev.op = "Notify"
       => (run.fetched # NoPath /\ run.analyze = "ok" /\ ~run.appended /\ ~run.deleted)
    /\ ev.op = "Append"
       => (run.analyze = "ok" /\ run.notify \in {"ok", "fail"} /\ ~run.deleted)
    /\ ev.op = "Delete"
       => (run.notify \in {"ok", "fail"} /\ run.appended)

C14_Witness ==
    /\ ev.op = "Delete" /\ ev.ok /\ run.deleted /\ run.appended
    /\ run.notify = "ok" /\ run.analyze = "ok" /\ run.fetched # NoPath

C16_NoEarlyExit ==
    /\ [][(pc = "delay" /\ ev'.op = "Delay")
          => IF ci < NumChannels THEN pc' = "scan" /\ ci' = ci + 1
                                 ELSE pc' = "endsleep"]_vars
    /\ [][(pc' = "endsleep" /\ pc # "endsleep") => (pc = "delay" /\ ci = NumChannels)]_vars
    /\ [](  /\ pc = "scan" => ENABLED Scan
            /\ (pc = "check" /\ vid # None /\ vid \notin history) => ENABLED NewVideo
            /\ pc = "fetch" => ENABLED Fetch
            /\ pc = "analyze" => ENABLED Analyze)

C16_Witness ==
    ev.op = "Analyze" /\ api_limit_hit /\ ci = NumChannels /\ ev.vid \notin cooling

\* an operation that is tried again and again succeeds again and again
FetchNotFailingForever ==
    []<>(ev.op = "Fetch" /\ ev.vid = LiveVid)
    => []<>(ev.op = "Fetch" /\ ev.vid = LiveVid /\ audio # NoPath)

AnalyzeNotFailingForever ==
    []<>(ev.op = "Analyze" /\ ev.vid = LiveVid)
    => []<>(ev.op = "Analyze" /\ ev.vid = LiveVid /\ ev.ok)

LoadNotFailingForever ==
    []<>(ev.op = "Load") => []<>(ev.op = "Load" /\ ev.ok)

AppendNotFailingForever ==
    []<>(ev.op = "Append" /\ ev.vid = LiveVid)
    => []<>(ev.op = "Append" /\ ev.vid = LiveVid /\ ev.ok)

\* C17 as stated: when a new video stays the latest of a channel, the scans
\* of the channel succeed, and Fetch and Analyze for it do not fail forever,
\* the video is eventually appended to the History Store.
C17_EventuallyRecorded ==
    (FetchNotFailingForever /\ AnalyzeNotFailingForever)
    => <>(LiveVid \in historyFile)

\* C17 amended: the same, when moreover the load of the History Store and
\* the append do not fail forever.
C17_EventuallyRecordedIfStoreWorks ==
    (/\ FetchNotFailingForever /\ AnalyzeNotFailingForever
     /\ LoadNotFailingForever /\ AppendNotFailingForever)
    => <>(LiveVid \in historyFile)

C17_Witness ==
    /\ LiveVid \in historyFile /\ ev.op = "Append" /\ ev.vid = LiveVid
    /\ prevLong /\ lastFetch[LiveVid] \in artifacts

\* C18: when the process stops after Fetch produced the artifact of a video
\* and before the append, then after the restart the video is absent from
\* the History Store and its artifact still exists, the first scan that
\* returns it starts its pipeline again, and that pipeline's Fetch returns the
\* artifact without a download.
C18_CutRunIsResumed ==
    /\ [](\A id \in recov :
            /\ id \notin historyFile
            /\ lastFetch[id] # NoPath /\ lastFetch[id] \in artifacts)
    /\ []((pc = "check" /\ vid \in recov) => (ENABLED NewVideo /\ ~ENABLED Skip))
    /\ [][(ev'.op = "Fetch" /\ vid \in recov)
          => (/\ ~ev'.ok
              /\ audio' = lastFetch[vid]
              /\ artifacts' = artifacts
              /\ pc' = "analyze")]_vars

C18_Witness ==
    /\ ev.op = "New" /\ ev.vid \in recov /\ pc = "fetch"
    /\ lastFetch[vid] \in artifacts /\ vid \notin historyFile

\* C19: the cooldown flag is reset at the start of every outer iteration:
\* the sleep that ends an iteration is the long one exactly when a run of
\* that iteration was classified as API limit, whatever the sleep of the
\* previous iteration was.
C19_FlagResetEachIteration ==
    /\ (ev.op = "Load" /\ ev.ok) => ~api_limit_hit
    /\ pc = "endsleep" => (api_limit_hit <=> classSeen)
    /\ ev.op = "EndSleep"
       => (/\ ev.secs = LongSleep <=> classSeen
           /\ ev.secs = ShortSleep <=> ~classSeen)

C19_Witness ==
    pc = "endsleep" /\ prevLong /\ ~classSeen /\ ~api_limit_hit /\ ev.op = "Delay"

\* C20: an interrupt can arrive at every point of the running process; it
\* ends the process, touches nothing on disk, is handed to no error handler,
\* and the ended process makes no call and no append.
C20_InterruptTerminates ==
    /\ [](pc \notin {"terminated", "exited"} => ENABLED Interrupt)
    /\ [](pc = "terminated"
          => (ev.op = "Exit" /\ ~ENABLED LoopStep /\ ~ENABLED StartupOk /\ err = << >>))
    /\ [][ev'.op = "Exit" => (pc' = "terminated" /\ UNCHANGED disk)]_vars
    /\ [][pc = "terminated" => (UNCHANGED disk /\ pc' \in {"terminated", "startup"})]_vars

C20_Witness ==
    /\ pc = "terminated" /\ ev.op = "Exit" /\ recov # {}
    /\ \E id \in recov : lastFetch[id] \in artifacts /\ id \notin historyFile

====
